---- MODULE Spec2Model ----
(***************************************************************************)
(* The checkers engine of src/game_state.py (class CheckersGame) as a      *)
(* state machine: the 8x8 board, the player to move, the selection, the    *)
(* offered destinations, the forced-capture flag and the winner, driven by *)
(* select_piece(row, col) and make_move(row, col) with arbitrary integer   *)
(* arguments, as src/app.py passes them on unvalidated.  The bounds-safe    *)
(* board queries of src/board.py are modelled beside it and serve as the   *)
(* reference the engine's state is compared with.                          *)
(***************************************************************************)
EXTENDS Integers, Sequences, FiniteSets, TLC

\* Board.BOARD_SIZE; game_state.py writes the same 8 literally.
BOARD_SIZE == 8

\* Arguments of select_piece/make_move range over -Margin .. 7+Margin.
Margin == 1

\* Accepted moves that leave the reference games below.
MaxFree == 1

Rows == 0 .. (BOARD_SIZE - 1)
Coords == (0 - Margin) .. (BOARD_SIZE - 1 + Margin)

\* Python's None for selected_piece and winner.
None == << >>
NoWinner == "None"

(***************************************************************************)
(* A cell of the grid: None, or a Piece(color, king).  The four pieces are *)
(* numbered 1 = red man, 2 = black man, 3 = red king, 4 = black king, and  *)
(* Color and King read the two fields back.                                *)
(***************************************************************************)
NoPiece == 0
Piece(color) == IF color = "red" THEN 1 ELSE 2
Color(piece) ==
    CASE piece = 1 \/ piece = 3 -> "red"
      [] piece = 2 \/ piece = 4 -> "black"
King(piece) == piece > 2
\* King(piece) = True
Crowned(piece) == IF piece > 2 THEN piece ELSE piece + 2

Other(player) == IF player = "red" THEN "black" ELSE "red"

Abs(n) == IF n < 0 THEN 0 - n ELSE n

SeqToSet(s) == {s[i] : i \in 1 .. Len(s)}

(***************************************************************************)
(* Python list indexing: board[row][col] accepts -8..7 in each index (a    *)
(* negative index counts from the end) and raises IndexError otherwise.    *)
(***************************************************************************)
Indexable(i) == (0 - BOARD_SIZE) <= i /\ i < BOARD_SIZE
Index(i) == IF i < 0 THEN i + BOARD_SIZE ELSE i
At(b, row, col) == b[Index(row)][Index(col)]
SetAt(b, row, col, v) == [b EXCEPT ![Index(row)][Index(col)] = v]

(***************************************************************************)
(* CheckersGame, src/game_state.py                                         *)
(***************************************************************************)
\* Mutant of initialize_board: the red rows start one row early.
initialize_board_FourRedRows ==
    [row \in Rows |-> [col \in Rows |->
        IF row < 3 /\ (row + col) % 2 = 1 THEN Piece("black")
        ELSE IF row >= 4 /\ (row + col) % 2 = 1 THEN Piece("red")
        ELSE NoPiece]]

initialize_board ==
    [row \in Rows |-> [col \in Rows |->
        IF row < 3 /\ (row + col) % 2 = 1 THEN Piece("black")
        ELSE IF row >= 5 /\ (row + col) % 2 = 1 THEN Piece("red")
        ELSE NoPiece]]

\* Mutant of directions: a king is given the upward vectors only.
directions_KingAsRed(piece) ==
    (IF Color(piece) = "red" \/ King(piece)
        THEN << <<0 - 1, 0 - 1>>, <<0 - 1, 1>> >> ELSE << >>)
    \o (IF Color(piece) = "black"
        THEN << <<1, 0 - 1>>, <<1, 1>> >> ELSE << >>)

\* The direction list of _get_piece_moves, in the order it is built.
directions(piece) ==
    (IF Color(piece) = "red" \/ King(piece)
        THEN << <<0 - 1, 0 - 1>>, <<0 - 1, 1>> >> ELSE << >>)
    \o (IF Color(piece) = "black" \/ King(piece)
        THEN << <<1, 0 - 1>>, <<1, 1>> >> ELSE << >>)

RECURSIVE Targets_ColumnUnscaled(_, _, _, _)
\* Mutant of Targets: the column offset is not multiplied by the distance.
Targets_ColumnUnscaled(ds, row, col, k) ==
    IF ds = << >> THEN << >>
    ELSE << <<row + Head(ds)[1] * k, col + Head(ds)[2]>> >>
         \o Targets_ColumnUnscaled(Tail(ds), row, col, k)

RECURSIVE Targets(_, _, _, _)
Targets(ds, row, col, k) ==
    IF ds = << >> THEN << >>
    ELSE << <<row + Head(ds)[1] * k, col + Head(ds)[2] * k>> >>
         \o Targets(Tail(ds), row, col, k)

\* The capture loop: the landing is tested against 0..7, the jumped cell
\* and the landing are then read with plain list indexing.
CaptureInDirection(b, piece, row, col, d) ==
    LET new_row == row + d[1] * 2
        new_col == col + d[2] * 2
        mid_row == row + d[1]
        mid_col == col + d[2]
    IN  /\ 0 <= new_row /\ new_row < 8 /\ 0 <= new_col /\ new_col < 8
        /\ At(b, mid_row, mid_col) # NoPiece
        /\ Color(At(b, mid_row, mid_col)) # Color(piece)
        /\ At(b, new_row, new_col) = NoPiece

StepInDirection(b, row, col, d) ==
    LET new_row == row + d[1]
        new_col == col + d[2]
    IN  /\ 0 <= new_row /\ new_row < 8 /\ 0 <= new_col /\ new_col < 8
        /\ At(b, new_row, new_col) = NoPiece

_get_piece_moves(b, player, row, col, capture_only) ==
    LET piece == At(b, row, col)
    IN  IF piece = NoPiece \/ Color(piece) # player THEN << >>
        ELSE LET captures ==
                    Targets(SelectSeq(directions(piece),
                                LAMBDA d : CaptureInDirection(b, piece, row, col, d)),
                            row, col, 2)
                 moves ==
                    Targets(SelectSeq(directions(piece),
                                LAMBDA d : StepInDirection(b, row, col, d)),
                            row, col, 1)
             IN  IF captures # << >> \/ capture_only THEN captures ELSE moves

\* Mutant of _check_for_captures: the color of the piece is not looked at.
_check_for_captures_AnyColor(b, player) ==
    \E row \in Rows, col \in Rows :
        /\ b[row][col] # NoPiece
        /\ _get_piece_moves(b, Color(b[row][col]), row, col, TRUE) # << >>

\* The value _check_for_captures returns and stores in must_capture.
_check_for_captures(b, player) ==
    \E row \in Rows, col \in Rows :
        /\ b[row][col] # NoPiece
        /\ Color(b[row][col]) = player
        /\ _get_piece_moves(b, player, row, col, TRUE) # << >>

\* Mutant of _can_continue_capture: capture_only=True left out.
_can_continue_capture_AnyMove(b, player, row, col) ==
    _get_piece_moves(b, player, row, col, FALSE) # << >>

_can_continue_capture(b, player, row, col) ==
    _get_piece_moves(b, player, row, col, TRUE) # << >>

\* Mutant of is_game_over: the game ends only when no piece is left.
is_game_over_NoPiecesLeft(b, player) ==
    \A row \in Rows, col \in Rows :
        ~ (b[row][col] # NoPiece /\ Color(b[row][col]) = player)

is_game_over(b, player) ==
    \A row \in Rows, col \in Rows :
        (b[row][col] # NoPiece /\ Color(b[row][col]) = player)
            => _get_piece_moves(b, player, row, col, FALSE) = << >>

(***************************************************************************)
(* Snapshots: a game is the record of its six fields; serialize turns the  *)
(* grid into dictionaries {color, king} or None, deserialize builds a new  *)
(* game and overwrites its fields from the snapshot.                       *)
(***************************************************************************)
\* Piece.serialize
Piece_serialize(piece) == [color |-> Color(piece), king |-> King(piece)]

\* Piece.deserialize: cls(**data) if data else None
Piece_deserialize(data) ==
    IF data = None THEN NoPiece
    ELSE IF data.king THEN Crowned(Piece(data.color)) ELSE Piece(data.color)

\* The instance CheckersGame() builds.
NewGame ==
    [board |-> initialize_board,
     current_player |-> "red",
     selected_piece |-> None,
     valid_moves |-> << >>,
     must_capture |-> _check_for_captures(initialize_board, "red"),
     winner |-> NoWinner]

serialize(g) ==
    [board |-> [row \in Rows |-> [col \in Rows |->
                    IF g.board[row][col] # NoPiece
                    THEN Piece_serialize(g.board[row][col])
                    ELSE None]],
     current_player |-> g.current_player,
     selected_piece |-> g.selected_piece,
     valid_moves |-> g.valid_moves,
     must_capture |-> g.must_capture,
     winner |-> g.winner]

\* Mutant of deserialize: must_capture is not restored, the value computed
\* for the new game stays.
deserialize_KeepsMustCapture(data) ==
    [NewGame EXCEPT
        !.board = [row \in Rows |-> [col \in Rows |->
                      IF data.board[row][col] # None
                      THEN Piece_deserialize(data.board[row][col])
                      ELSE NoPiece]],
        !.current_player = data.current_player,
        !.selected_piece = data.selected_piece,
        !.valid_moves = data.valid_moves,
        !.winner = data.winner]

deserialize(data) ==
    [NewGame EXCEPT
        !.board = [row \in Rows |-> [col \in Rows |->
                      IF data.board[row][col] # None
                      THEN Piece_deserialize(data.board[row][col])
                      ELSE NoPiece]],
        !.current_player = data.current_player,
        !.selected_piece = data.selected_piece,
        !.valid_moves = data.valid_moves,
        !.must_capture = data.must_capture,
        !.winner = data.winner]

(***************************************************************************)
(* Board, src/board.py: the bounds-safe queries.                           *)
(***************************************************************************)
is_dark_square(row, col) == (row + col) % 2 = 1

is_valid_position(row, col) ==
    0 <= row /\ row < BOARD_SIZE /\ 0 <= col /\ col < BOARD_SIZE

get_piece(b, row, col) ==
    IF is_valid_position(row, col) THEN b[row][col] ELSE NoPiece

\* Piece.get_move_directions, src/piece.py, as a set.
get_move_directions(piece) ==
    (IF Color(piece) = "red" \/ King(piece)
        THEN {<<0 - 1, 0 - 1>>, <<0 - 1, 1>>} ELSE {})
    \cup (IF Color(piece) = "black" \/ King(piece)
        THEN {<<1, 0 - 1>>, <<1, 1>>} ELSE {})

\* Board._check_capture: the landing square, or None.
_check_capture(b, row, col, d_row, d_col, piece_color) ==
    LET jump_row == row + d_row * 2
        jump_col == col + d_col * 2
        mid_piece == get_piece(b, row + d_row, col + d_col)
    IN  IF ~ is_valid_position(jump_row, jump_col) THEN None
        ELSE IF /\ mid_piece # NoPiece
                /\ Color(mid_piece) # piece_color
                /\ get_piece(b, jump_row, jump_col) = NoPiece
             THEN <<jump_row, jump_col>>
             ELSE None

\* The regular-move loop of Board.get_valid_moves: the empty adjacent
\* diagonal squares in the piece's directions.
regular_moves(b, row, col, piece) ==
    {<<row + d[1], col + d[2]>> : d \in
        {e \in get_move_directions(piece) :
            /\ is_valid_position(row + e[1], col + e[2])
            /\ get_piece(b, row + e[1], col + e[2]) = NoPiece}}

\* Board.get_valid_moves: a set of squares.
get_valid_moves(b, row, col, capture_only) ==
    LET piece == get_piece(b, row, col)
    IN  IF piece = NoPiece THEN {}
        ELSE LET captures ==
                    {_check_capture(b, row, col, d[1], d[2], Color(piece)) :
                        d \in get_move_directions(piece)} \ {None}
             IN  IF captures # {} \/ capture_only THEN captures
                 ELSE regular_moves(b, row, col, piece)

has_captures_available(b, color) ==
    \E row \in Rows, col \in Rows :
        /\ get_piece(b, row, col) # NoPiece
        /\ Color(get_piece(b, row, col)) = color
        /\ get_valid_moves(b, row, col, TRUE) # {}

has_valid_moves(b, color) ==
    \E row \in Rows, col \in Rows :
        /\ get_piece(b, row, col) # NoPiece
        /\ Color(get_piece(b, row, col)) = color
        /\ get_valid_moves(b, row, col, FALSE) # {}

count_pieces(b, color) ==
    Cardinality({sq \in Rows \X Rows :
        get_piece(b, sq[1], sq[2]) # NoPiece /\ Color(get_piece(b, sq[1], sq[2])) = color})

(***************************************************************************)
(* Reference games: sequences of <<selected square, destination>> the real *)
(* engine accepts one after the other from a new game.  The model follows  *)
(* one of them and may leave it by at most MaxFree accepted moves, so that *)
(* captures, chains, promotions and the end of a game are reached from the *)
(* initial position within the bounds.                                     *)
(*   GameA: promotion in the middle of a chain, a chain with a second      *)
(*          capturing piece on the board, red left blocked at the end.     *)
(*   GameB: black loses its last piece.                                    *)
(*   GameC: a capture selected through a negative column index.            *)
(*   GameD: red left blocked, then a red capture selected through a        *)
(*          negative column index.                                         *)
(***************************************************************************)
GameA ==
    <<
       <<<<5, 6>>, <<4, 7>>>>, <<<<2, 5>>, <<3, 4>>>>, <<<<5, 0>>, <<4, 1>>>>, <<<<2, 3>>, <<3, 2>>>>,
       <<<<4, 1>>, <<2, 3>>>>, <<<<1, 4>>, <<3, 2>>>>, <<<<5, 2>>, <<4, 1>>>>, <<<<3, 2>>, <<5, 0>>>>,
       <<<<6, 3>>, <<5, 2>>>>, <<<<0, 5>>, <<1, 4>>>>, <<<<5, 4>>, <<4, 5>>>>, <<<<3, 4>>, <<5, 6>>>>,
       <<<<6, 7>>, <<4, 5>>>>, <<<<1, 6>>, <<2, 5>>>>, <<<<4, 5>>, <<3, 6>>>>, <<<<2, 7>>, <<4, 5>>>>,
       <<<<5, 2>>, <<4, 1>>>>, <<<<1, 4>>, <<2, 3>>>>, <<<<7, 2>>, <<6, 3>>>>, <<<<5, 0>>, <<7, 2>>>>,
       <<<<7, 2>>, <<5, 4>>>>, <<<<6, 5>>, <<4, 3>>>>, <<<<0, 3>>, <<1, 4>>>>, <<<<7, 6>>, <<6, 5>>>>,
       <<<<2, 5>>, <<3, 6>>>>, <<<<4, 7>>, <<2, 5>>>>, <<<<2, 5>>, <<0, 3>>>>, <<<<2, 1>>, <<3, 0>>>>,
       <<<<0, 3>>, <<2, 1>>>>, <<<<1, 0>>, <<3, 2>>>>, <<<<3, 2>>, <<5, 0>>>>, <<<<6, 5>>, <<5, 4>>>>,
       <<<<4, 5>>, <<6, 3>>>>, <<<<7, 4>>, <<5, 2>>>>, <<<<5, 0>>, <<6, 1>>>>, <<<<5, 2>>, <<4, 1>>>>,
       <<<<3, 0>>, <<5, 2>>>>, <<<<4, 3>>, <<3, 2>>>>, <<<<2, 3>>, <<4, 1>>>>
    >>
GameB ==
    <<
       <<<<5, 4>>, <<4, 5>>>>, <<<<2, 1>>, <<3, 2>>>>, <<<<5, 6>>, <<4, 7>>>>, <<<<1, 0>>, <<2, 1>>>>,
       <<<<6, 5>>, <<5, 4>>>>, <<<<2, 7>>, <<3, 6>>>>, <<<<4, 5>>, <<2, 7>>>>, <<<<0, 1>>, <<1, 0>>>>,
       <<<<5, 2>>, <<4, 1>>>>, <<<<2, 5>>, <<3, 6>>>>, <<<<4, 7>>, <<2, 5>>>>, <<<<1, 4>>, <<3, 6>>>>,
       <<<<7, 4>>, <<6, 5>>>>, <<<<0, 5>>, <<1, 4>>>>, <<<<2, 7>>, <<0, 5>>>>, <<<<2, 3>>, <<3, 4>>>>,
       <<<<4, 1>>, <<2, 3>>>>, <<<<2, 3>>, <<0, 1>>>>, <<<<2, 1>>, <<3, 0>>>>, <<<<0, 5>>, <<2, 3>>>>,
       <<<<2, 3>>, <<4, 5>>>>, <<<<4, 5>>, <<2, 7>>>>, <<<<3, 0>>, <<4, 1>>>>, <<<<5, 0>>, <<3, 2>>>>,
       <<<<1, 0>>, <<2, 1>>>>, <<<<3, 2>>, <<1, 0>>>>, <<<<0, 3>>, <<1, 2>>>>, <<<<0, 1>>, <<2, 3>>>>,
       <<<<0, 7>>, <<1, 6>>>>, <<<<2, 7>>, <<0, 5>>>>
    >>
GameC ==
    <<
       <<<<5, 2>>, <<4, 1>>>>, <<<<2, 1>>, <<3, 2>>>>, <<<<4, 1>>, <<3, 0>>>>, <<<<1, 0>>, <<2, 1>>>>,
       <<<<6, 3>>, <<5, 2>>>>, <<<<2, 0 - 1>>, <<4, 1>>>>, <<<<3, 2>>, <<4, 3>>>>
    >>
GameD ==
    <<
       <<<<5, 0>>, <<4, 1>>>>, <<<<2, 5>>, <<3, 4>>>>, <<<<5, 4>>, <<4, 5>>>>, <<<<1, 4>>, <<2, 5>>>>,
       <<<<6, 5>>, <<5, 4>>>>, <<<<2, 7>>, <<3, 6>>>>, <<<<4, 5>>, <<2, 7>>>>, <<<<2, 1>>, <<3, 2>>>>,
       <<<<5, 4>>, <<4, 3>>>>, <<<<3, 2>>, <<5, 0>>>>, <<<<5, 2>>, <<4, 1>>>>, <<<<3, 4>>, <<5, 2>>>>,
       <<<<6, 1>>, <<4, 3>>>>, <<<<1, 0>>, <<2, 1>>>>, <<<<5, 6>>, <<4, 7>>>>, <<<<0, 1>>, <<1, 0>>>>,
       <<<<7, 2>>, <<6, 1>>>>, <<<<5, 0>>, <<7, 2>>>>, <<<<7, 2>>, <<5, 4>>>>, <<<<5, 4>>, <<3, 2>>>>,
       <<<<3, 2>>, <<5, 0>>>>, <<<<7, 4>>, <<6, 3>>>>, <<<<0, 3>>, <<1, 4>>>>, <<<<7, 0>>, <<6, 1>>>>,
       <<<<5, 0>>, <<7, 2>>>>, <<<<7, 2>>, <<5, 4>>>>, <<<<4, 7>>, <<3, 6>>>>, <<<<2, 5>>, <<4, 7>>>>,
       <<<<7, 6>>, <<6, 5>>>>, <<<<5, 4>>, <<7, 6>>>>, <<<<6, 7>>, <<5, 6>>>>, <<<<4, 7>>, <<6, 5>>>>,
       <<<<2, 0 - 1>>, <<0, 1>>>>
    >>

Games == <<GameA, GameB, GameC, GameD>>

VARIABLES
    board,            \* self.board
    current_player,   \* self.current_player
    selected_piece,   \* self.selected_piece
    valid_moves,      \* self.valid_moves
    must_capture,     \* self.must_capture
    winner,           \* self.winner
    ret,              \* outcome of the last call: "True", "False", "IndexError"
    chain,            \* history: landing square of the last accepted move if
                      \* it continued the turn, None otherwise
    game,             \* the reference game followed
    step,             \* index of its next move, 0 once it has been left
    free,             \* accepted moves off the reference game still allowed
    turn_moves,       \* history: moves accepted so far in the current turn
    turn_opp          \* history: opposing pieces on the board when the
                      \* current turn started

engine == <<board, current_player, selected_piece, valid_moves, must_capture, winner>>
vars == <<board, current_player, selected_piece, valid_moves, must_capture, winner,
          ret, chain, game, step, free, turn_moves, turn_opp>>

\* The game as the record of its fields.
Current ==
    [board |-> board,
     current_player |-> current_player,
     selected_piece |-> selected_piece,
     valid_moves |-> valid_moves,
     must_capture |-> must_capture,
     winner |-> winner]

\* CheckersGame.__init__
Init ==
    /\ board = initialize_board
    /\ current_player = "red"
    /\ selected_piece = None
    /\ valid_moves = << >>
    /\ must_capture = _check_for_captures(initialize_board, "red")
    /\ winner = NoWinner
    /\ ret = "None"
    /\ chain = None
    /\ game \in 1 .. Len(Games)
    /\ step = 1
    /\ free = MaxFree
    /\ turn_moves = 0
    /\ turn_opp = count_pieces(initialize_board, "black")

\* Mutant of SelectionRejected: a rejected selection drops the current one.
SelectionRejected_Deselects ==
    /\ ret' = "False"
    /\ selected_piece' = None
    /\ valid_moves' = << >>

\* The two `return False` of select_piece.
SelectionRejected ==
    /\ ret' = "False"
    /\ UNCHANGED <<selected_piece, valid_moves>>

\* select_piece(row, col)
select_piece(row, col) ==
    /\ UNCHANGED <<board, current_player, must_capture, winner, chain, game, step, free,
                   turn_moves, turn_opp>>
    /\ IF ~ Indexable(row) \/ ~ Indexable(col)
       THEN /\ ret' = "IndexError"
            /\ UNCHANGED <<selected_piece, valid_moves>>
       ELSE LET piece == At(board, row, col)
            IN  IF piece = NoPiece \/ Color(piece) # current_player
                THEN SelectionRejected
                ELSE LET moves == _get_piece_moves(board, current_player, row, col,
                                                   must_capture)
                     IN  IF must_capture /\ moves = << >>
                         THEN SelectionRejected
                         ELSE /\ selected_piece' = <<row, col>>
                              /\ valid_moves' = moves
                              /\ ret' = "True"

\* Mutant of MovedBoard: the destination receives a new Piece(color) instead
\* Mutant of MovedBoard: the jumped piece stays on the board.
MovedBoard_KeepsJumped(b, old_row, old_col, new_row, new_col) ==
    LET piece == At(b, old_row, old_col)
        b1 == SetAt(b, new_row, new_col, piece)
        b2 == SetAt(b1, old_row, old_col, NoPiece)
        promote == \/ (Color(piece) = "red" /\ new_row = 0)
                   \/ (Color(piece) = "black" /\ new_row = 7)
    IN  IF promote
        THEN SetAt(b2, new_row, new_col, Crowned(At(b2, new_row, new_col)))
        ELSE b2

\* of the moving piece.
MovedBoard_NewPiece(b, old_row, old_col, new_row, new_col) ==
    LET piece == At(b, old_row, old_col)
        b1 == SetAt(b, new_row, new_col, Piece(Color(piece)))
        b2 == SetAt(b1, old_row, old_col, NoPiece)
        is_capture == Abs(new_row - old_row) = 2
        mid_row == (new_row + old_row) \div 2
        mid_col == (new_col + old_col) \div 2
        b3 == IF is_capture THEN SetAt(b2, mid_row, mid_col, NoPiece) ELSE b2
        promote == \/ (Color(piece) = "red" /\ new_row = 0)
                   \/ (Color(piece) = "black" /\ new_row = 7)
    IN  IF promote
        THEN SetAt(b3, new_row, new_col, Crowned(At(b3, new_row, new_col)))
        ELSE b3

\* The board after the accepted move of make_move: relocation, removal of the
\* jumped piece, promotion.
MovedBoard(b, old_row, old_col, new_row, new_col) ==
    LET piece == At(b, old_row, old_col)
        b1 == SetAt(b, new_row, new_col, piece)
        b2 == SetAt(b1, old_row, old_col, NoPiece)
        is_capture == Abs(new_row - old_row) = 2
        mid_row == (new_row + old_row) \div 2
        mid_col == (new_col + old_col) \div 2
        b3 == IF is_capture THEN SetAt(b2, mid_row, mid_col, NoPiece) ELSE b2
        promote == \/ (Color(piece) = "red" /\ new_row = 0)
                   \/ (Color(piece) = "black" /\ new_row = 7)
    IN  IF promote
        THEN SetAt(b3, new_row, new_col, Crowned(At(b3, new_row, new_col)))
        ELSE b3

\* Mutant of _end_turn: must_capture is not recomputed.
_end_turn_StaleMustCapture(b, player) ==
    /\ current_player' = Other(player)
    /\ selected_piece' = None
    /\ valid_moves' = << >>
    /\ must_capture' = must_capture
    /\ winner' = IF is_game_over(b, Other(player))
                 THEN Other(Other(player))
                 ELSE winner

\* _end_turn on board b with `player` the one who just moved.
_end_turn(b, player) ==
    /\ current_player' = Other(player)
    /\ selected_piece' = None
    /\ valid_moves' = << >>
    /\ must_capture' = _check_for_captures(b, Other(player))
    /\ winner' = IF is_game_over(b, Other(player))
                 THEN Other(Other(player))
                 ELSE winner

\* The accepted move counts against MaxFree unless it is the next move of the
\* reference game.
Follow(move) ==
    IF step # 0 /\ step <= Len(Games[game]) /\ Games[game][step] = move
    THEN /\ step' = step + 1
         /\ free' = free
    ELSE /\ free > 0
         /\ step' = 0
         /\ free' = free - 1

\* make_move(new_row, new_col)
make_move(new_row, new_col) ==
    /\ game' = game
    /\ IF selected_piece = None \/ <<new_row, new_col>> \notin SeqToSet(valid_moves)
       THEN /\ ret' = "False"
            /\ UNCHANGED <<board, current_player, selected_piece, valid_moves,
                           must_capture, winner, chain, step, free,
                           turn_moves, turn_opp>>
       ELSE LET old_row == selected_piece[1]
                old_col == selected_piece[2]
                is_capture == Abs(new_row - old_row) = 2
                b == MovedBoard(board, old_row, old_col, new_row, new_col)
            IN  /\ Follow(<<selected_piece, <<new_row, new_col>>>>)
                /\ board' = b
                /\ ret' = "True"
                /\ IF is_capture /\ _can_continue_capture(b, current_player, new_row, new_col)
                   THEN /\ selected_piece' = <<new_row, new_col>>
                        /\ valid_moves' = _get_piece_moves(b, current_player,
                                                           new_row, new_col, TRUE)
                        /\ chain' = <<new_row, new_col>>
                        /\ turn_moves' = turn_moves + 1
                        /\ UNCHANGED <<current_player, must_capture, winner, turn_opp>>
                   ELSE /\ _end_turn(b, current_player)
                        /\ chain' = None
                        /\ turn_moves' = 0
                        /\ turn_opp' = count_pieces(b, current_player)

\* Between two requests the game lives in the session: one request stores
\* game.serialize(), the next one starts from CheckersGame.deserialize of it.
reload ==
    LET g == deserialize(serialize(Current))
    IN  /\ board' = g.board
        /\ current_player' = g.current_player
        /\ selected_piece' = g.selected_piece
        /\ valid_moves' = g.valid_moves
        /\ must_capture' = g.must_capture
        /\ winner' = g.winner
        /\ UNCHANGED <<ret, chain, game, step, free, turn_moves, turn_opp>>

Next ==
    \/ \E row \in Coords, col \in Coords :
        \/ select_piece(row, col)
        \/ make_move(row, col)
    \/ reload

Spec == Init /\ [][Next]_vars

\* The same engine called with coordinates of the board only.
NextInRange ==
    \/ \E row \in Rows, col \in Rows :
        \/ select_piece(row, col)
        \/ make_move(row, col)
    \/ reload

SpecInRange == Init /\ [][NextInRange]_vars

(***************************************************************************)
(* Steps of the engine as seen in a pair of states.                        *)
(***************************************************************************)
\* An accepted make_move: every accepted move changes the board.
Moved == board' # board
\* An accepted select_piece: it leaves a selection and the board as it was.
Selected == ret' = "True" /\ board' = board /\ selected_piece' # None
\* The destination of the accepted move: the offered square that got filled.
IsDestination(dest) == dest \in SeqToSet(valid_moves) /\ board'[dest[1]][dest[2]] # NoPiece
\* The accepted move removed a piece of the opponent.
Jumped == count_pieces(board', Other(current_player)) < count_pieces(board, Other(current_player))

\* C1: while a chain capture is in progress (the last accepted move was a
\* jump that did not end the turn), the next accepted move is a jump made by
\* the chain piece from its landing square; no other piece can be moved.
C1_ChainPieceOnly ==
    [][(chain # None /\ Moved) => (selected_piece = chain /\ Jumped)]_vars

\* C2: every accepted jump either continues the turn -- when the moved piece,
\* after the removal and any promotion, has a capture from its landing
\* square: same player, selection on the landing square, destinations exactly
\* the capture landings from there -- or ends it.
C2_JumpOutcome ==
    [][\A dest \in SeqToSet(valid_moves) :
        (Moved /\ IsDestination(dest) /\ Abs(dest[1] - selected_piece[1]) = 2)
        => IF get_valid_moves(board', dest[1], dest[2], TRUE) # {}
           THEN /\ current_player' = current_player
                /\ selected_piece' = dest
                /\ SeqToSet(valid_moves') = get_valid_moves(board', dest[1], dest[2], TRUE)
           ELSE /\ current_player' = Other(current_player)
                /\ selected_piece' = None
                /\ valid_moves' = << >>]_vars

\* C2 witness: a man has jumped onto its far rank, was promoted there and
\* continues the chain as a king.
C2_Witness ==
    /\ chain # None
    /\ selected_piece = chain
    /\ chain[1] = 7
    /\ board[chain[1]][chain[2]] = 4
    /\ ret = "True"

\* C3: in a state where some piece of the player to move has a capture, an
\* accepted selection is of a piece that has a capture, and an accepted move
\* is a jump.
C3_ForcedCapture ==
    [][((Selected \/ Moved) /\ has_captures_available(board, current_player)) =>
        /\ Selected =>
             get_valid_moves(board, selected_piece'[1], selected_piece'[2], TRUE) # {}
        /\ Moved => Jumped]_vars

\* C4: a rejected operation changes nothing, and what is accepted is none of
\* the rejected cases: an accepted selection is of a cell holding a piece of
\* the player to move, with a capture when must_capture is set; an accepted
\* move starts from a selection and goes to an offered destination; an
\* IndexError comes only from an index outside -8..7.
C4_RejectedIsNoOp ==
    [][/\ ret' = "False" => UNCHANGED engine
       /\ ret' = "IndexError" =>
            /\ UNCHANGED engine
            /\ \E row \in Coords, col \in Coords :
                 (~ Indexable(row) \/ ~ Indexable(col)) /\ select_piece(row, col)
       /\ Selected =>
            LET piece == IF selected_piece' = None THEN NoPiece
                         ELSE At(board, selected_piece'[1], selected_piece'[2])
            IN  /\ piece # NoPiece
                /\ Color(piece) = current_player
                /\ must_capture =>
                     _get_piece_moves(board, current_player, selected_piece'[1],
                                      selected_piece'[2], TRUE) # << >>
       /\ Moved =>
            /\ selected_piece # None
            /\ \E dest \in SeqToSet(valid_moves) : IsDestination(dest)
            /\ ret' = "True"]_vars

\* C4 witness: a call was rejected while a piece was selected and captures
\* were forced, and the selection is still there.
C4_Witness ==
    /\ ret = "False"
    /\ must_capture
    /\ selected_piece # None
    /\ valid_moves # << >>

\* C5: select_piece and make_move with a row or column outside 0..7 raise no
\* error, return false and leave the state unchanged; no such coordinate
\* becomes the selection.
C5_BoundsSafe ==
    [][/\ ret' # "IndexError"
       /\ selected_piece' # None => is_valid_position(selected_piece'[1], selected_piece'[2])
       /\ \A row \in Coords, col \in Coords :
            (~ is_valid_position(row, col) /\ (select_piece(row, col) \/ make_move(row, col)))
            => (ret' = "False" /\ UNCHANGED engine)]_vars

\* C6: at every turn end the winner is set to the player who just moved
\* exactly when the new player to move has no destination for any piece
\* (none left included); when it is set it differs from the player to move
\* and is_game_over() holds.
C6_WinnerAtTurnEnd ==
    [][current_player' # current_player =>
        IF has_valid_moves(board', current_player')
        THEN winner' = winner
        ELSE /\ winner' = current_player
             /\ winner' # current_player'
             /\ is_game_over(board', current_player')]_vars

\* C6 witness: the game has ended with the loser still owning a piece that
\* cannot move.
C6_Witness ==
    /\ winner # NoWinner
    /\ winner = Other(current_player)
    /\ count_pieces(board, current_player) > 0
    /\ ~ has_valid_moves(board, current_player)

\* C7: with nothing selected no destination is offered; otherwise the
\* offered destinations are exactly the capture landings of the piece on the
\* selected square when must_capture is set, and exactly its empty adjacent
\* diagonal squares in its move directions when it is not.
C7_LegalDestinations ==
    IF selected_piece = None
    THEN valid_moves = << >>
    ELSE LET row == selected_piece[1]
             col == selected_piece[2]
         IN  SeqToSet(valid_moves) =
                IF must_capture
                THEN get_valid_moves(board, row, col, TRUE)
                ELSE IF get_piece(board, row, col) = NoPiece THEN {}
                ELSE regular_moves(board, row, col, get_piece(board, row, col))

\* A capture landing from square `from`: two rows away over a piece of the
\* opponent of the player to move.
IsCaptureLanding(from, dest) ==
    /\ is_valid_position(from[1], from[2])
    /\ Abs(dest[1] - from[1]) = 2
    /\ Abs(dest[2] - from[2]) = 2
    /\ LET mid == get_piece(board, (from[1] + dest[1]) \div 2, (from[2] + dest[2]) \div 2)
       IN  mid # NoPiece /\ Color(mid) = Other(current_player)

\* C8: whenever a piece of the player to move has a capture, must_capture is
\* set and every offered destination is a capture landing, in the middle of a
\* chain too; a selected piece that has a capture is never offered a one-step
\* destination.
C8_CaptureOnly ==
    /\ has_captures_available(board, current_player) =>
         /\ must_capture
         /\ selected_piece # None =>
              \A dest \in SeqToSet(valid_moves) : IsCaptureLanding(selected_piece, dest)
    /\ (selected_piece # None
        /\ get_valid_moves(board, selected_piece[1], selected_piece[2], TRUE) # {}) =>
         \A dest \in SeqToSet(valid_moves) : Abs(dest[1] - selected_piece[1]) = 2

\* C9: every occupied cell is a dark square, (row + col) odd.
C9_DarkSquaresOnly ==
    \A row \in Rows, col \in Rows :
        board[row][col] # NoPiece => is_dark_square(row, col)

\* C9 witness: simple moves, jumps and a promotion have been made.
C9_Witness ==
    /\ count_pieces(board, "red") + count_pieces(board, "black") < 20
    /\ \E row \in Rows, col \in Rows : board[row][col] # NoPiece /\ King(board[row][col])
    /\ step > 20

\* C10: every red piece on row 0 and every black piece on row 7 is a king,
\* and no step turns a king back into a man: a king stays where it is, is
\* removed by a jump, or is the moving piece and arrives as a king of the same
\* color.
C10_PromotionPermanent ==
    /\ [](\A col \in Rows :
            /\ (board[0][col] # NoPiece /\ Color(board[0][col]) = "red") => King(board[0][col])
            /\ (board[7][col] # NoPiece /\ Color(board[7][col]) = "black") => King(board[7][col]))
    /\ [][Moved =>
            \A row \in Rows, col \in Rows :
                (board[row][col] # NoPiece /\ King(board[row][col])) =>
                    \/ board'[row][col] = board[row][col]
                    \/ /\ board'[row][col] = NoPiece
                       /\ <<row, col>> # <<Index(selected_piece[1]), Index(selected_piece[2])>>
                       /\ Jumped
                    \/ /\ board'[row][col] = NoPiece
                       /\ <<row, col>> = <<Index(selected_piece[1]), Index(selected_piece[2])>>
                       /\ \E dest \in SeqToSet(valid_moves) :
                            IsDestination(dest) /\ board'[dest[1]][dest[2]] = board[row][col]]_vars

\* C10 witness: a promoted piece has left its promotion row and is still a
\* king.
C10_Witness ==
    \E row \in 1 .. 6, col \in Rows : board[row][col] # NoPiece /\ King(board[row][col])

\* C11: for every reachable state s, serialize(deserialize(serialize(s)))
\* equals serialize(s) in all six fields, and the game deserialize returns is
\* the game that was serialized: nothing of the new game it starts from (its
\* board, its must_capture) is left in it.
C11_SnapshotRoundTrip ==
    /\ serialize(deserialize(serialize(Current))) = serialize(Current)
    /\ deserialize(serialize(Current)) = Current

\* C11 witness: a snapshot taken in the middle of a chain, with a selection,
\* must_capture set and a king on the board.
C11_Witness ==
    /\ chain # None
    /\ serialize(Current).selected_piece = chain
    /\ serialize(Current).must_capture
    /\ \E row \in Rows, col \in Rows :
         /\ serialize(Current).board[row][col] # None
         /\ serialize(Current).board[row][col].king

\* C12: a new game has red to move, no forced capture, no selection, no
\* destinations, no winner, 12 black men on the dark squares of rows 0-2, 12
\* red men on the dark squares of rows 5-7 and rows 3-4 empty.
C12_NewGame ==
    ret = "None" =>
        /\ current_player = "red"
        /\ must_capture = FALSE
        /\ selected_piece = None
        /\ valid_moves = << >>
        /\ winner = NoWinner
        /\ count_pieces(board, "black") = 12
        /\ count_pieces(board, "red") = 12
        /\ \A row \in Rows, col \in Rows :
             board[row][col] =
                IF is_dark_square(row, col) /\ row \in 0 .. 2 THEN Piece("black")
                ELSE IF is_dark_square(row, col) /\ row \in 5 .. 7 THEN Piece("red")
                ELSE NoPiece

\* C12 witness: the game before its first call.
C12_Witness ==
    /\ ret = "None"
    /\ board = NewGame.board
    /\ step = 1

\* C13: a red man has exactly the two unit diagonals with row delta -1, a
\* black man the two with row delta +1, a king of either color all four, and
\* the direction list of _get_piece_moves holds the same vectors, once each,
\* as Piece.get_move_directions.
C13_MoveDirections ==
    /\ \A color \in {"red", "black"}, king \in BOOLEAN :
         LET piece == IF king THEN Crowned(Piece(color)) ELSE Piece(color)
             up == {<<0 - 1, 0 - 1>>, <<0 - 1, 1>>}
             down == {<<1, 0 - 1>>, <<1, 1>>}
         IN  /\ get_move_directions(piece) =
                    IF king THEN up \cup down
                    ELSE IF color = "red" THEN up ELSE down
             /\ SeqToSet(directions(piece)) = get_move_directions(piece)
             /\ Len(directions(piece)) = Cardinality(get_move_directions(piece))
    /\ selected_piece # None =>
         \A dest \in SeqToSet(valid_moves) :
            \E d \in get_move_directions(At(board, selected_piece[1], selected_piece[2])) :
                \E k \in 1 .. 2 :
                    dest = <<selected_piece[1] + k * d[1], selected_piece[2] + k * d[2]>>

\* C13 witness: a king is selected and is offered a destination behind it (a
\* black king a smaller row).
C13_Witness ==
    /\ selected_piece # None
    /\ At(board, selected_piece[1], selected_piece[2]) = Crowned(Piece("black"))
    /\ \E dest \in SeqToSet(valid_moves) : dest[1] < selected_piece[1]

\* C14: an accepted move that does not continue a chain (a move that is not a
\* jump, or a jump after which the moved piece has no capture) switches
\* current_player, clears selected_piece and valid_moves and recomputes
\* must_capture for the new player; current_player changes in no other way,
\* and selected_piece gets a value only by an accepted selection or by a
\* chain continuation.
C14_TurnEnd ==
    [][/\ Moved =>
            \E dest \in SeqToSet(valid_moves) :
                /\ IsDestination(dest)
                /\ IF Jumped /\ get_valid_moves(board', dest[1], dest[2], TRUE) # {}
                   THEN /\ current_player' = current_player
                        /\ selected_piece' = dest
                   ELSE /\ current_player' = Other(current_player)
                        /\ selected_piece' = None
                        /\ valid_moves' = << >>
                        /\ must_capture' = has_captures_available(board', current_player')
       /\ ~ Moved => current_player' = current_player
       /\ (selected_piece' # None /\ selected_piece' # selected_piece)
            => \/ Selected
               \/ Moved /\ Jumped /\ current_player' = current_player]_vars

\* C14 witness: a jump has just ended the turn and left the other player with
\* a forced capture.
C14_Witness ==
    /\ ret = "True"
    /\ turn_moves = 0
    /\ selected_piece = None
    /\ must_capture
    /\ count_pieces(board, current_player) < 12
    /\ turn_opp = count_pieces(board, Other(current_player))
    /\ free < MaxFree

\* C15: an accepted move takes the piece from its source square to the
\* destination; a jump (row distance 2) empties exactly one more cell, the
\* midpoint, which held a piece of the other color; a move that is not a
\* jump removes nothing; every other cell is unchanged, so the mover's count
\* is unchanged and no count grows.
C15_MoveFrame ==
    [][Moved =>
        \E dest \in SeqToSet(valid_moves) :
            /\ IsDestination(dest)
            /\ LET src == <<Index(selected_piece[1]), Index(selected_piece[2])>>
                   jump == Abs(dest[1] - src[1]) = 2
                   mid == <<(src[1] + dest[1]) \div 2, (src[2] + dest[2]) \div 2>>
                   touched == {src, dest} \cup (IF jump THEN {mid} ELSE {})
               IN  /\ board[src[1]][src[2]] # NoPiece
                   /\ board'[src[1]][src[2]] = NoPiece
                   /\ board'[dest[1]][dest[2]] \in
                        {board[src[1]][src[2]], Crowned(board[src[1]][src[2]])}
                   /\ jump =>
                        /\ get_piece(board, mid[1], mid[2]) # NoPiece
                        /\ Color(get_piece(board, mid[1], mid[2])) = Other(current_player)
                        /\ get_piece(board', mid[1], mid[2]) = NoPiece
                   /\ \A row \in Rows, col \in Rows :
                        <<row, col>> \notin touched => board'[row][col] = board[row][col]
                   /\ count_pieces(board', current_player) = count_pieces(board, current_player)
                   /\ count_pieces(board', Other(current_player)) <=
                        count_pieces(board, Other(current_player))]_vars

\* C16: select_piece, accepted or not, leaves board, current_player,
\* must_capture and winner alone; it is accepted only for a square of the
\* board holding a piece of current_player that has a capture when
\* must_capture is set, and for every such square it is accepted, a blocked
\* piece included when must_capture is false.
C16_SelectFrame ==
    /\ [][/\ ~ Moved => UNCHANGED <<board, current_player, must_capture, winner>>
          /\ (Selected /\ selected_piece' # None) =>
                LET row == selected_piece'[1]
                    col == selected_piece'[2]
                IN  /\ get_piece(board, row, col) # NoPiece
                    /\ Color(get_piece(board, row, col)) = current_player
                    /\ must_capture => get_valid_moves(board, row, col, TRUE) # {}]_vars
    /\ [](\A row \in Rows, col \in Rows :
            (/\ get_piece(board, row, col) # NoPiece
             /\ Color(get_piece(board, row, col)) = current_player
             /\ (must_capture => get_valid_moves(board, row, col, TRUE) # {}))
            => ENABLED (select_piece(row, col) /\ ret' = "True"
                            /\ selected_piece' = <<row, col>>))

\* C17: once winner is set no move is accepted any more, and board,
\* current_player, must_capture and winner never change again.
C17_GameOverTerminal ==
    [][winner # NoWinner =>
        /\ ~ Moved
        /\ UNCHANGED <<board, current_player, must_capture, winner>>]_vars

\* C18: in every state without a winner some piece of current_player on the
\* board can be selected and is then offered at least one destination.
C18_NoStuckState ==
    winner = NoWinner =>
        \E row \in Rows, col \in Rows :
            /\ get_piece(board, row, col) # NoPiece
            /\ Color(get_piece(board, row, col)) = current_player
            /\ _get_piece_moves(board, current_player, row, col, must_capture) # << >>

\* C18 witness: no winner in the middle of a chain, after a selection that
\* was rejected because the piece has no capture.
C18_Witness ==
    /\ winner = NoWinner
    /\ chain # None
    /\ selected_piece = chain
    /\ must_capture
    /\ ret = "False"

\* C19: winner is set exactly when is_game_over() is true.
C19_WinnerIffGameOver ==
    (winner # NoWinner) <=> is_game_over(board, current_player)

\* C20: the moves accepted in one turn never outnumber the opposing pieces on
\* the board when the turn started: the turn goes on only after a jump, and
\* each of these jumps has taken one opposing piece.
C20_TurnsEnd ==
    /\ [](/\ turn_moves = turn_opp - count_pieces(board, Other(current_player))
          /\ turn_moves <= turn_opp
          /\ (turn_moves > 0) = (chain # None))
    /\ [][Moved => /\ turn_moves + 1 <= turn_opp
                   /\ current_player' = current_player => Jumped]_vars

\* C20 witness: the second jump of a chain has been made and the turn goes
\* on.
C20_Witness ==
    /\ turn_moves = 2
    /\ chain # None
    /\ count_pieces(board, Other(current_player)) = turn_opp - 2
====
